---------------------------- MODULE Spec2Model ----------------------------
(***************************************************************************)
(* Model of the record matcher: the table statistics (records.py), the     *)
(* column-level and record-level matchers and the result assembler         *)
(* TabularMatcher.match (matcher.py), over the configuration held by       *)
(* MatcherConfig (config.py).                                              *)
(*                                                                         *)
(* Tables are sequences of records (row id = position); a record is a      *)
(* function from column names to cell values.  Python dicts keep insertion *)
(* order, so every dict whose iteration order the code depends on is a     *)
(* sequence of key/value pairs.  Real numbers are fixed-point integers     *)
(* scaled by Scale, which is chosen so that every quotient the matcher     *)
(* forms is exact.                                                         *)
(***************************************************************************)
EXTENDS Integers, Sequences, FiniteSets, TLC

\* Bounds of the model: the largest number of rows of the X and the Y table.
MaxX == 2
MaxY == 2

\* Column names and cell values the tables are drawn from.
Cols == {"a", "b"}
None == "<None>"

\* TabularMatcher.MATCH_STATUS and TabularMatcher.ADD_COLUMNS.
MATCH_STATUS == [unmatched |-> "UNMATCHED", matched |-> "MATCHED",
                 ambiguous |-> "AMBIGUOUS", review |-> "REVIEW",
                 duplicate |-> "DUPLICATE"]
ADD_COLUMNS == [match_status |-> "match_status",
                matched_with_row |-> "row(s)_matched",
                match_score |-> "match_score"]

-----------------------------------------------------------------------------
(* Generic helpers.                                                        *)

Range(s) == {s[i] : i \in DOMAIN s}

RECURSIVE SetSum(_, _)
SetSum(S, f) ==
  IF S = {} THEN 0
  ELSE LET e == CHOOSE e \in S : TRUE IN f[e] + SetSum(S \ {e}, f)

SetMax(S) == CHOOSE m \in S : \A n \in S : n <= m
SetMin(S) == CHOOSE m \in S : \A n \in S : m <= n

Abs(n) == IF n < 0 THEN -n ELSE n

RECURSIVE GCD(_, _)
GCD(m, n) == IF n = 0 THEN m ELSE GCD(n, m % n)

RECURSIVE LCMUpTo(_)
LCMUpTo(n) == IF n <= 1 THEN 1
              ELSE LET l == LCMUpTo(n - 1) IN (l * n) \div GCD(l, n)

\* Fixed-point scale: every |X| and every sum of distinct-value counts over
\* the columns divides it, so len(items)/len(records) and u/_u_sum are exact.
Scale == LCMUpTo(MaxX * Cardinality(Cols))

\* a / b on fixed-point numbers.
Div(a, b) == (a * Scale) \div b

\* All sequences without repetition over the set S (the orders in which a
\* Python set of column names may be iterated).
RECURSIVE Orders(_)
Orders(S) ==
  IF S = {} THEN {<<>>}
  ELSE UNION {{<<e>> \o o : o \in Orders(S \ {e})} : e \in S}

-----------------------------------------------------------------------------
(* Cells of a record.                                                      *)

\* `x[c] if c in x else ""` (matcher.py) and `record.get(column, "")`.
Get(rec, c) == IF c \in DOMAIN rec THEN rec[c] ELSE ""

\* Truthiness of a cell value: the empty string and None are falsy.
Truthy(v) == v # "" /\ v # None

\* rec[c] = v on a dict: adds the key or overwrites it.
Put(rec, c, v) == [k \in DOMAIN rec \cup {c} |-> IF k = c THEN v ELSE rec[k]]


\* str(v) as the matcher applies it to a cell before scoring: a string is
\* itself, None prints as "None".
Str(v) == IF v = None THEN "None" ELSE v

-----------------------------------------------------------------------------
(* records.py: table statistics.                                           *)

\* column_names: the union of the keys of all records.
column_names(records) == UNION {DOMAIN records[i] : i \in DOMAIN records}

\* uniqueness evaluates r[column] on every record: a record without the
\* column raises KeyError.
uniqueness_raises(records, column) ==
  \E i \in DOMAIN records : column \notin DOMAIN records[i]

\* uniqueness with the rows that hold a value as the denominator.
uniqueness_of_filled(records, column) ==
  LET filled == {j \in DOMAIN records : Truthy(records[j][column])}
      items  == {records[i][column] : i \in filled}
  IN  IF filled # {} THEN (Cardinality(items) * Scale) \div Cardinality(filled)
      ELSE 0

\* len(items) / len(records), 0 for an empty table (fixed-point).
uniqueness(records, column) ==
  LET items == {records[i][column] :
                  i \in {j \in DOMAIN records : Truthy(records[j][column])}}
  IN  IF Len(records) > 0 THEN (Cardinality(items) * Scale) \div Len(records)
      ELSE 0

\* group_by that ignores column_map and keeps every record.
group_by_all(records, column_map) == [i \in DOMAIN records |-> i]

\* group_by: the ids, in table order, of the records whose cell equals the
\* wanted value for every (column, value) of column_map; a missing cell
\* reads as "".  column_map is a function from columns to values.
group_by(records, column_map) ==
  SelectSeq([i \in DOMAIN records |-> i],
            LAMBDA i : \A c \in DOMAIN column_map :
                          Get(records[i], c) = column_map[c])

-----------------------------------------------------------------------------
(* config.py: the scorer registry.                                         *)

\* ScorersByColumn.SCORERS and DEFAULT_SCORER.
SCORERS == {"exact_match"}
DEFAULT_SCORER == "exact_match"

\* The registered scorer called on two strings.
Scorer(name, x, y) ==
  CASE name = "exact_match" -> IF x = y THEN 100 ELSE 0

-----------------------------------------------------------------------------
(* matcher.py: column_match.                                               *)

\* max(column_scores) if column_scores else 0, for one Y record.
row_score(x_record, y_record, x_column, y_columns, scorer) ==
  LET column_scores ==
        {Scorer(scorer, Str(Get(x_record, x_column)),
                        Str(Get(y_record, y_columns[k]))) :
           k \in DOMAIN y_columns}
  IN  IF column_scores # {} THEN SetMax(column_scores) ELSE 0

\* emitted with `>` for `>=` under cutoff.
emitted_strict(score, threshold, cutoff) ==
  IF cutoff THEN score > threshold ELSE score > 0

\* Whether column_match emits a row with this score.
emitted(score, threshold, cutoff) ==
  IF cutoff THEN score >= threshold ELSE score > 0

\* column_match: the (y_index, score) pairs, in the order of the grouped
\* Y rows.  y_ids is the sequence of ids of the grouped sub-table.
column_match(x_record, y_records, y_ids, x_column, y_columns, scorer, threshold, cutoff) ==
  LET row_scores == [k \in DOMAIN y_ids |->
                       <<y_ids[k], row_score(x_record, y_records[y_ids[k]],
                                             x_column, y_columns, scorer)>>]
  IN  SelectSeq(row_scores, LAMBDA p : emitted(p[2], threshold, cutoff))

-----------------------------------------------------------------------------
(* matcher.py: records_match, the work done for one X row.                 *)

\* Keys of an insertion-ordered dict held as a sequence of <<key, value>>.
Keys(d) == {d[i][1] : i \in DOMAIN d}

\* x_columns_to_match: the columns of the row that are to be matched and
\* hold a non-empty value.
x_columns_to_match(x_record, columns_to_match) ==
  {c \in DOMAIN x_record : c \in Keys(columns_to_match) /\ Truthy(x_record[c])}

\* u_adjusted without the division by the sum.
u_adjusted_unnormalised(selected, x_uniq) ==
  LET sel   == {c \in DOMAIN x_uniq : c \in selected}
      u_sum == SetSum(sel, x_uniq)
  IN  [c \in (IF u_sum > 0 THEN sel ELSE {}) |-> x_uniq[c]]

\* _u_adjusted: the uniqueness of the selected columns divided by their sum;
\* empty when the sum is not positive.
u_adjusted(selected, x_uniq) ==
  LET sel   == {c \in DOMAIN x_uniq : c \in selected}
      u_sum == SetSum(sel, x_uniq)
  IN  [c \in (IF u_sum > 0 THEN sel ELSE {}) |-> Div(x_uniq[c], u_sum)]

\* `_u_adjusted[x_column] if x_column in _u_adjusted else 0`.
weight(w, x_column) == IF x_column \in DOMAIN w THEN w[x_column] ELSE 0

\* {y: x_record[x] for y, x in columns_to_group.items()} raises KeyError
\* when the row lacks a grouping column.
group_map_raises(x_record, columns_to_group) ==
  \E y \in DOMAIN columns_to_group : columns_to_group[y] \notin DOMAIN x_record

group_map(x_record, columns_to_group) ==
  [y \in DOMAIN columns_to_group |-> x_record[columns_to_group[y]]]

\* acc_add with `=` for `+=`: the last column's score replaces the sum.
acc_add_overwrite(acc, y_index, delta) ==
  IF \E i \in DOMAIN acc : acc[i][1] = y_index
  THEN [i \in DOMAIN acc |->
          IF acc[i][1] = y_index THEN <<y_index, delta>> ELSE acc[i]]
  ELSE Append(acc, <<y_index, delta>>)

\* y_records_scores[y_index] += delta on the defaultdict(float): a new key
\* is appended, an existing one keeps its place.
acc_add(acc, y_index, delta) ==
  IF \E i \in DOMAIN acc : acc[i][1] = y_index
  THEN [i \in DOMAIN acc |->
          IF acc[i][1] = y_index THEN <<y_index, acc[i][2] + delta>> ELSE acc[i]]
  ELSE Append(acc, <<y_index, delta>>)

\* The inner loop: the pairs one column yields, added with the column's weight.
RECURSIVE acc_column(_, _, _)
acc_column(acc, pairs, w) ==
  IF pairs = <<>> THEN acc
  ELSE acc_column(acc_add(acc, Head(pairs)[1], Head(pairs)[2] * w),
                  Tail(pairs), w)

\* The outer loop over columns_to_match.items(), in the dict's order.
RECURSIVE y_records_scores(_, _, _, _, _, _, _, _, _)
y_records_scores(acc, x_record, y_records, y_ids, cm, scorers, thresholds, cutoffs, w) ==
  IF cm = <<>> THEN acc
  ELSE LET x_column == Head(cm)[1]
           pairs == column_match(x_record, y_records, y_ids, x_column,
                                 Head(cm)[2], scorers[x_column],
                                 thresholds[x_column], cutoffs[x_column])
       IN  y_records_scores(
             acc_column(acc, pairs, weight(w, x_column)),
             x_record, y_records, y_ids, Tail(cm), scorers, thresholds,
             cutoffs, w)

\* y_matches: the entries whose score is the maximum and reaches the
\* required threshold, in the accumulator's order.
y_matches_of(acc, required_threshold) ==
  LET best == SetMax({acc[i][2] : i \in DOMAIN acc})
  IN  SelectSeq(acc, LAMBDA p : p[2] = best /\ p[2] >= required_threshold * Scale)

\* optimal_threshold with every selected column counted in full.
optimal_threshold_unweighted(selected, thresholds, w) ==
  SetSum(selected, [c \in selected |-> thresholds[c] * Scale])

\* optimal_threshold: the column thresholds weighted like the scores.
optimal_threshold(selected, thresholds, w) ==
  SetSum(selected, [c \in selected |-> thresholds[c] * weight(w, c)])

\* What records_match yields for one row: the matches and the optimal
\* threshold (the x_index is the caller's); with them the accumulator, the
\* weights (_u_adjusted), the ids of the grouped Y rows and what column_match gave for each entry of
\* columns_to_match.
records_match_row(x_record, y_records, columns_to_match, columns_to_group, scorers, thresholds, cutoffs, required_threshold, x_uniq) ==
  LET selected == x_columns_to_match(x_record, columns_to_match)
      w        == u_adjusted(selected, x_uniq)
      y_ids    == group_by(y_records, group_map(x_record, columns_to_group))
      acc      == y_records_scores(<<>>, x_record, y_records, y_ids,
                                   columns_to_match, scorers, thresholds,
                                   cutoffs, w)
  IN  [y_matches |-> y_matches_of(acc, required_threshold),
       optimal   |-> optimal_threshold(selected, thresholds, w),
       acc       |-> acc,
       weights   |-> w,
       grouped   |-> y_ids,
       scores    |-> [k \in DOMAIN columns_to_match |->
                        column_match(x_record, y_records, y_ids,
                                     columns_to_match[k][1],
                                     columns_to_match[k][2],
                                     scorers[columns_to_match[k][1]],
                                     thresholds[columns_to_match[k][1]],
                                     cutoffs[columns_to_match[k][1]])]]

-----------------------------------------------------------------------------
(* The state of a TabularMatcher with its MatcherConfig, and of one call   *)
(* of match().                                                             *)

VARIABLES
  x_records,             \* TabularMatcher.__x_records; match() annotates a
                         \* dict.copy() of it, which shares every record
  y_records,             \* TabularMatcher.__y_records
  x_columns,             \* MatcherConfig.__x_columns
  y_columns,             \* MatcherConfig.__y_columns
  columns_to_match,      \* sequence of <<x_column, sequence of y_columns>>
  columns_to_get,        \* sequence of <<y_column, x_column>>
  columns_to_group,      \* function y_column -> x_column
  scorers_by_column,     \* function x_column -> scorer name
  thresholds_by_column,  \* function x_column -> threshold
  cutoffs_by_column,     \* function x_column -> boolean
  allow_overwrite,       \* ColumnsToGet.allow_overwrite
  scorers_default,       \* ScorersByColumn.default
  thresholds_default,    \* ThresholdsByColumn.default
  cutoffs_default,       \* CutoffsByColumn.default
  last,                  \* the last operation on the configuration: its
                         \* name and arguments, the exception it raised and
                         \* the configuration it was applied to
  required_threshold,    \* TabularMatcher.required_threshold
  duplicate_threshold,   \* TabularMatcher.duplicate_threshold
  pc,                    \* "idle", "match", "done" or "error" (an exception
                         \* left match())
  x_given,               \* the X table as the caller passed it to match()
  y_given,               \* the Y table as the caller passed it to match()
  x_uniqueness,          \* records_match: function column -> uniqueness
  x_pos,                 \* records_match: the next X row of the generator
  yielded,               \* what records_match yielded, by x_index
  y_index_to_x_matches,  \* sequence of <<y_index, sequence of <<x_index, score>>>>
  y_pos,                 \* Pass 2: the next entry of y_index_to_x_matches
  match_summary,         \* Counter of status names
  update_calls           \* match(update_func): the calls of update_func so
                         \* far, each recorded with the x_index of the
                         \* loop iteration that made it

config_vars == <<x_columns, y_columns, columns_to_match, columns_to_get,
                 columns_to_group, scorers_by_column, thresholds_by_column,
                 cutoffs_by_column, allow_overwrite, scorers_default,
                 thresholds_default, cutoffs_default, last, required_threshold,
                 duplicate_threshold>>
run_vars == <<pc, x_given, y_given, x_uniqueness, x_pos, yielded,
              y_index_to_x_matches, y_pos, match_summary, update_calls>>
vars == <<x_records, y_records, config_vars, run_vars>>

\* TabularMatcher.__init__ and the class defaults of config.py.
DEFAULT_REQUIRED_THRESHOLD == 75
DEFAULT_DUPLICATE_THRESHOLD == 3
DEFAULT_THRESHOLD == 75
DEFAULT_CUTOFF == FALSE

\* No operation on the configuration has been recorded.
NoOperation == [op |-> "none"]

-----------------------------------------------------------------------------
(* The inputs the model is checked on.                                     *)

\* X rows: complete rows, a row with an empty cell, a row that omits "b".
XPool == << [a |-> "1", b |-> "1"], [a |-> "1", b |-> "2"],
            [a |-> "1", b |-> ""], [a |-> "1"] >>
\* Y rows: complete rows and a row that omits "b".
YPool == << [a |-> "1", b |-> "1"], [a |-> "1", b |-> "2"],
            [a |-> "2", b |-> "1"], [a |-> "2"] >>

\* The tables of n rows over a pool, one for every multiset of rows (the
\* matcher treats row ids as labels, so the order of the rows is fixed).
TablesOf(pool, n) ==
  {[i \in 1..n |-> pool[s[i]]] :
     s \in {t \in [1..n -> DOMAIN pool] : \A i \in 1..(n - 1) : t[i] <= t[i + 1]}}

XTables == UNION {TablesOf(XPool, n) : n \in 0..MaxX}
YTables == UNION {TablesOf(YPool, n) : n \in 0..MaxY}

\* columns_to_match as populate() or identity assignments leave it: each
\* chosen column matched with the Y column of the same name, in any order of
\* insertion; or "a" alone with an empty list of Y columns (an assignment
\* that named no column of Y).
ColumnsToMatchChoices(xc, yc) ==
  UNION {{[i \in DOMAIN o |-> <<o[i], <<o[i]>>>>] : o \in Orders(S)} :
           S \in SUBSET (xc \cap yc)}
  \cup (IF "a" \in xc THEN {<< <<"a", <<>>>> >>} ELSE {})

\* columns_to_get: nothing, or Y column "b" copied to the new X column "z".
ColumnsToGetChoices(xc, yc) ==
  {<<>>} \cup (IF "b" \in yc /\ "z" \notin xc THEN {<< <<"b", "z">> >>} ELSE {})

\* columns_to_group: nothing, or Y rows grouped by "b" = the X row's "b".
ColumnsToGroupChoices(xc, yc) ==
  {<<>>} \cup (IF "b" \in yc /\ "b" \in xc THEN {[y \in {"b"} |-> "b"]} ELSE {})

ThresholdChoices == {DEFAULT_THRESHOLD, 100}
RequiredChoices == {0, DEFAULT_REQUIRED_THRESHOLD}
DuplicateChoices == {0, DEFAULT_DUPLICATE_THRESHOLD, 60}

EmptySummary == [s \in DOMAIN MATCH_STATUS |-> 0]

Init ==
  /\ x_records \in XTables
  /\ y_records \in YTables
  /\ x_columns = column_names(x_records)
  /\ y_columns = column_names(y_records)
  /\ columns_to_match \in ColumnsToMatchChoices(x_columns, y_columns)
  /\ columns_to_get \in ColumnsToGetChoices(x_columns, y_columns)
  /\ columns_to_group \in ColumnsToGroupChoices(x_columns, y_columns)
  /\ scorers_by_column = [c \in Keys(columns_to_match) |-> DEFAULT_SCORER]
  /\ \E t \in ThresholdChoices :
       thresholds_by_column = [c \in Keys(columns_to_match) |-> t]
  /\ cutoffs_by_column = [c \in Keys(columns_to_match) |-> DEFAULT_CUTOFF]
  /\ allow_overwrite = FALSE
  /\ scorers_default = DEFAULT_SCORER
  /\ thresholds_default = DEFAULT_THRESHOLD
  /\ cutoffs_default = DEFAULT_CUTOFF
  /\ last = NoOperation
  /\ required_threshold \in RequiredChoices
  /\ duplicate_threshold \in DuplicateChoices
  /\ pc = "idle"
  /\ x_given = x_records
  /\ y_given = y_records
  /\ x_uniqueness = <<>>
  /\ x_pos = 1
  /\ yielded = <<>>
  /\ y_index_to_x_matches = <<>>
  /\ y_pos = 1
  /\ match_summary = EmptySummary
  /\ update_calls = <<>>

\* Inputs for column_match: columns_to_match entries with no, one or two Y
\* columns, thresholds at both ends of the scorer's range, either cutoff.
YLists(yc) ==
  {<<>>} \cup {<<c>> : c \in yc}
         \cup {p \in yc \X yc : p[1] # p[2]}
ColumnEntryChoices(xc, yc) ==
  {<< <<x, l>> >> : x \in xc, l \in YLists(yc)}
  \cup (IF {"a", "b"} \subseteq xc \cap yc
        THEN {<< <<"a", l>>, <<"b", <<"b">>>> >> : l \in YLists(yc)}
        ELSE {})
ColumnThresholdChoices == {0, 100}

ColumnInit ==
  /\ x_records \in XTables
  /\ y_records \in YTables
  /\ x_columns = column_names(x_records)
  /\ y_columns = column_names(y_records)
  /\ columns_to_match \in ColumnEntryChoices(x_columns, y_columns)
  /\ columns_to_get = <<>>
  /\ columns_to_group = <<>>
  /\ scorers_by_column = [c \in Keys(columns_to_match) |-> DEFAULT_SCORER]
  /\ thresholds_by_column \in [Keys(columns_to_match) -> ColumnThresholdChoices]
  /\ cutoffs_by_column \in [Keys(columns_to_match) -> BOOLEAN]
  /\ allow_overwrite = FALSE
  /\ scorers_default = DEFAULT_SCORER
  /\ thresholds_default = DEFAULT_THRESHOLD
  /\ cutoffs_default = DEFAULT_CUTOFF
  /\ last = NoOperation
  /\ required_threshold = 0
  /\ duplicate_threshold = DEFAULT_DUPLICATE_THRESHOLD
  /\ pc = "idle"
  /\ x_given = x_records
  /\ y_given = y_records
  /\ x_uniqueness = <<>>
  /\ x_pos = 1
  /\ yielded = <<>>
  /\ y_index_to_x_matches = <<>>
  /\ y_pos = 1
  /\ match_summary = EmptySummary
  /\ update_calls = <<>>

-----------------------------------------------------------------------------
(* matcher.py: TabularMatcher.match, Pass 1.                               *)

\* pass1_status with `score < optimal` for `score <= optimal`.
pass1_status_strict(y_matches, optimal) ==
  IF Len(y_matches) = 1
  THEN (IF y_matches[1][2] < optimal THEN "review" ELSE "matched")
  ELSE IF Len(y_matches) > 1 THEN "ambiguous"
  ELSE "unmatched"

\* pass1_status with the tests of the last two branches exchanged.
pass1_status_swapped(y_matches, optimal) ==
  IF Len(y_matches) = 1
  THEN (IF y_matches[1][2] <= optimal THEN "review" ELSE "matched")
  ELSE IF Len(y_matches) = 0 THEN "ambiguous"
  ELSE "unmatched"

\* The status name Pass 1 gives a row from what records_match yielded.
pass1_status(y_matches, optimal) ==
  IF Len(y_matches) = 1
  THEN (IF y_matches[1][2] <= optimal THEN "review" ELSE "matched")
  ELSE IF Len(y_matches) > 1 THEN "ambiguous"
  ELSE "unmatched"

\* for y_column, x_column in columns_to_get.items():
\*     _x_records[x_index][x_column] = self.__y_records[y_index][y_column]
\* The loop stops with KeyError at the first Y column the record lacks; the
\* cells written before stay written.
RECURSIVE copy_cells(_, _, _)
copy_cells(rec, y_record, to_get) ==
  IF to_get = <<>> THEN [rec |-> rec, raised |-> FALSE]
  ELSE IF Head(to_get)[1] \notin DOMAIN y_record
       THEN [rec |-> rec, raised |-> TRUE]
       ELSE copy_cells(Put(rec, Head(to_get)[2], y_record[Head(to_get)[1]]),
                       y_record, Tail(to_get))

\* null_cells that writes nothing.
null_cells_skip(rec, to_get) == rec

\* for y_column, x_column in columns_to_get.items():
\*     _x_records[x_index][x_column] = None
RECURSIVE null_cells(_, _)
null_cells(rec, to_get) ==
  IF to_get = <<>> THEN rec
  ELSE null_cells(Put(rec, Head(to_get)[2], None), Tail(to_get))

\* ", ".join(map(lambda x: str(x[k]), y_matches)): the joined string is held
\* as the sequence of its items, the empty string as the empty sequence.
joined(y_matches, k) == [i \in DOMAIN y_matches |-> y_matches[i][k]]

\* The three added columns written at the end of the loop body.
annotate(rec, status, y_matches) ==
  Put(Put(Put(rec, ADD_COLUMNS.match_status, MATCH_STATUS[status]),
          ADD_COLUMNS.matched_with_row, joined(y_matches, 1)),
      ADD_COLUMNS.match_score, joined(y_matches, 2))

\* y_index_to_x_matches[y_index].update({x_index: score}) on the
\* defaultdict(dict).
index_update(index, y_index, x_index, score) ==
  IF \E i \in DOMAIN index : index[i][1] = y_index
  THEN [i \in DOMAIN index |->
          IF index[i][1] = y_index
          THEN <<y_index, Append(index[i][2], <<x_index, score>>)>>
          ELSE index[i]]
  ELSE Append(index, <<y_index, << <<x_index, score>> >> >>)

-----------------------------------------------------------------------------
(* matcher.py: TabularMatcher.match, Pass 2.                               *)

\* check: the rows that hold the maximum score.
check_of(x_matches, max_score) ==
  SelectSeq(x_matches, LAMBDA p : p[2] = max_score)

\* rule_duplicates without the duplicate_threshold test.
rule_duplicates_ties_only(x_matches, dup_threshold) ==
  LET scores    == {x_matches[i][2] : i \in DOMAIN x_matches}
      max_score == SetMax(scores)
  IN  Len(check_of(x_matches, max_score)) > 1

\* rule_duplicates with any spread of the scores below the threshold.
rule_duplicates_any_spread(x_matches, dup_threshold) ==
  LET scores    == {x_matches[i][2] : i \in DOMAIN x_matches}
      max_score == SetMax(scores)
      min_score == SetMin(scores)
  IN  \/ Len(check_of(x_matches, max_score)) > 1
      \/ Abs(max_score - min_score) <= 100 * Scale

\* len(check) > 1 or abs(max_score - min_score) < self.duplicate_threshold
rule_duplicates(x_matches, dup_threshold) ==
  LET scores    == {x_matches[i][2] : i \in DOMAIN x_matches}
      max_score == SetMax(scores)
      min_score == SetMin(scores)
  IN  \/ Len(check_of(x_matches, max_score)) > 1
      \/ Abs(max_score - min_score) < dup_threshold * Scale

\* demoted with the comparison turned round: no row is below the maximum.
demoted_above(score, max_score) == score > max_score

\* `if score != max_score`: the rows that are marked unmatched.
demoted(score, max_score) == score # max_score

\* for column in self.config.columns_to_get: _x_records[x_index][column] = None
\* Iterating the dict gives its keys, the Y columns.
RECURSIVE null_get_columns(_, _)
null_get_columns(rec, to_get) ==
  IF to_get = <<>> THEN rec
  ELSE null_get_columns(Put(rec, Head(to_get)[1], None), Tail(to_get))

\* The writes that mark one row unmatched.
demote(rec, to_get) ==
  Put(Put(Put(null_get_columns(rec, to_get),
              ADD_COLUMNS.match_status, MATCH_STATUS.unmatched),
          ADD_COLUMNS.match_score, <<>>),
      ADD_COLUMNS.matched_with_row, <<>>)

\* One iteration of `for x_matches in y_index_to_x_matches.values()`: the
\* table after it.
pass2_records(records, x_matches, dup_threshold, to_get) ==
  LET ids       == {x_matches[i][1] : i \in DOMAIN x_matches}
      score     == [i \in ids |->
                      (CHOOSE p \in Range(x_matches) : p[1] = i)[2]]
      max_score == SetMax({x_matches[i][2] : i \in DOMAIN x_matches})
  IN  IF Len(x_matches) <= 1 THEN records
      ELSE IF rule_duplicates(x_matches, dup_threshold)
      THEN [i \in DOMAIN records |->
              IF i \in ids
              THEN Put(records[i], ADD_COLUMNS.match_status,
                       MATCH_STATUS.duplicate)
              ELSE records[i]]
      ELSE [i \in DOMAIN records |->
              IF i \in ids /\ demoted(score[i], max_score)
              THEN demote(records[i], to_get)
              ELSE records[i]]

\* The same iteration's additions to match_summary.
pass2_summary(summary, x_matches, dup_threshold) ==
  LET max_score == SetMax({x_matches[i][2] : i \in DOMAIN x_matches})
  IN  IF Len(x_matches) <= 1 THEN summary
      ELSE IF rule_duplicates(x_matches, dup_threshold)
      THEN [summary EXCEPT !.duplicate = @ + Len(x_matches)]
      ELSE [summary EXCEPT !.unmatched =
              @ + Len(SelectSeq(x_matches,
                                LAMBDA p : demoted(p[2], max_score)))]

-----------------------------------------------------------------------------
(* The steps of one call of match().  The locals of the call are held in   *)
(* a record: records (the annotated table), index (y_index_to_x_matches),  *)
(* summary (match_summary), yielded, and raised (an exception left the     *)
(* call).                                                                  *)

\* The configuration as match() passes it to records_match.
config == [columns_to_match     |-> columns_to_match,
           columns_to_get       |-> columns_to_get,
           columns_to_group     |-> columns_to_group,
           scorers_by_column    |-> scorers_by_column,
           thresholds_by_column |-> thresholds_by_column,
           cutoffs_by_column    |-> cutoffs_by_column]

\* x_uniqueness raises KeyError when a record lacks a column of the table.
x_uniqueness_raises(x_recs) ==
  \E c \in column_names(x_recs) : uniqueness_raises(x_recs, c)

x_uniqueness_of(x_recs) ==
  [c \in column_names(x_recs) |-> uniqueness(x_recs, c)]

\* One iteration of the Pass 1 loop: records_match yields for row x_index
\* and the loop body annotates the row.
pass1_step(st, x_index, y_recs, cfg, required, x_uniq) ==
  LET x_record == st.records[x_index]
  IN  IF group_map_raises(x_record, cfg.columns_to_group)
      THEN [st EXCEPT !.raised = TRUE]
      ELSE
        LET r == records_match_row(x_record, y_recs, cfg.columns_to_match,
                   cfg.columns_to_group, cfg.scorers_by_column,
                   cfg.thresholds_by_column, cfg.cutoffs_by_column,
                   required, x_uniq)
            status == pass1_status(r.y_matches, r.optimal)
            single == Len(r.y_matches) = 1
            copied == copy_cells(x_record, y_recs[r.y_matches[1][1]],
                                 cfg.columns_to_get)
        IN  IF single /\ copied.raised
            THEN [st EXCEPT !.raised = TRUE,
                            !.records[x_index] = copied.rec,
                            !.yielded = Append(@, r)]
            ELSE [records |->
                    [st.records EXCEPT ![x_index] =
                       annotate(IF single THEN copied.rec
                                ELSE null_cells(x_record, cfg.columns_to_get),
                                status, r.y_matches)],
                  index |->
                    IF single
                    THEN index_update(st.index, r.y_matches[1][1], x_index,
                                      r.y_matches[1][2])
                    ELSE st.index,
                  summary |-> [st.summary EXCEPT ![status] = @ + 1],
                  yielded |-> Append(st.yielded, r),
                  raised  |-> FALSE]

\* One iteration of the Pass 2 loop, for the entry at position k of index.
pass2_step(st, k, cfg, dup_threshold) ==
  [st EXCEPT !.records = pass2_records(st.records, st.index[k][2],
                                       dup_threshold, cfg.columns_to_get),
             !.summary = pass2_summary(st.summary, st.index[k][2],
                                       dup_threshold)]

\* The locals of the call in the current state.
locals == [records |-> x_records, index |-> y_index_to_x_matches,
           summary |-> match_summary, yielded |-> yielded, raised |-> FALSE]

\* `if callable(update_func): update_func()` at the end of an iteration of
\* the Pass 1 loop, for a match() called with a callable: the iteration that
\* raised does not reach it.
notify_matched_only(calls, st, x_index) ==
  IF st.raised \/ st.yielded[x_index].y_matches = <<>> THEN calls
  ELSE Append(calls, x_index)

notify(calls, st, x_index) ==
  IF st.raised THEN calls ELSE Append(calls, x_index)

\* match() is entered.  With both tables empty it returns at once; else the
\* generator's first step computes x_uniqueness over column_names(x_records).
MatchCall ==
  /\ pc = "idle"
  /\ x_given' = x_records
  /\ y_given' = y_records
  /\ IF x_records = <<>> /\ y_records = <<>>
     THEN pc' = "done" /\ UNCHANGED x_uniqueness
     ELSE IF x_uniqueness_raises(x_records)
     THEN pc' = "error" /\ UNCHANGED x_uniqueness
     ELSE pc' = "match" /\ x_uniqueness' = x_uniqueness_of(x_records)
  /\ UNCHANGED <<x_records, y_records, config_vars, x_pos, yielded,
                 y_index_to_x_matches, y_pos, match_summary, update_calls>>

\* The Pass 1 loop handles the next X row.
Pass1 ==
  /\ pc = "match"
  /\ x_pos <= Len(x_records)
  /\ LET st == pass1_step(locals, x_pos, y_records, config,
                          required_threshold, x_uniqueness)
     IN  /\ x_records' = st.records
         /\ y_index_to_x_matches' = st.index
         /\ match_summary' = st.summary
         /\ yielded' = st.yielded
         /\ pc' = IF st.raised THEN "error" ELSE pc
         /\ x_pos' = IF st.raised THEN x_pos ELSE x_pos + 1
         /\ update_calls' = notify(update_calls, st, x_pos)
  /\ UNCHANGED <<y_records, config_vars, x_given, y_given, x_uniqueness, y_pos>>

\* The Pass 2 loop handles the next entry of y_index_to_x_matches.
Pass2 ==
  /\ pc = "match"
  /\ x_pos > Len(x_records)
  /\ y_pos <= Len(y_index_to_x_matches)
  /\ LET st == pass2_step(locals, y_pos, config, duplicate_threshold)
     IN  /\ x_records' = st.records
         /\ match_summary' = st.summary
  /\ y_pos' = y_pos + 1
  /\ UNCHANGED <<y_records, config_vars, pc, x_given, y_given, x_uniqueness,
                 x_pos, yielded, y_index_to_x_matches, update_calls>>

\* return _x_records, match_summary
Return ==
  /\ pc = "match"
  /\ x_pos > Len(x_records)
  /\ y_pos > Len(y_index_to_x_matches)
  /\ pc' = "done"
  /\ UNCHANGED <<x_records, y_records, config_vars, x_given, y_given,
                 x_uniqueness, x_pos, yielded, y_index_to_x_matches, y_pos,
                 match_summary, update_calls>>

-----------------------------------------------------------------------------
(* match() as a whole, on given tables and configuration: the loops above  *)
(* run to their end.                                                       *)

RECURSIVE pass1_all(_, _, _, _, _, _)
pass1_all(st, x_index, y_recs, cfg, required, x_uniq) ==
  IF st.raised \/ x_index > Len(st.records) THEN st
  ELSE pass1_all(pass1_step(st, x_index, y_recs, cfg, required, x_uniq),
                 x_index + 1, y_recs, cfg, required, x_uniq)

RECURSIVE pass2_all(_, _, _, _)
pass2_all(st, k, cfg, dup_threshold) ==
  IF k > Len(st.index) THEN st
  ELSE pass2_all(pass2_step(st, k, cfg, dup_threshold), k + 1, cfg,
                 dup_threshold)

\* outcome "none": match() returned None; "raised": an exception left it;
\* "returned": it returned the annotated table and the summary.
match_output(x_recs, y_recs, cfg, required, dup_threshold) ==
  IF x_recs = <<>> /\ y_recs = <<>> THEN [outcome |-> "none"]
  ELSE IF x_uniqueness_raises(x_recs) THEN [outcome |-> "raised"]
  ELSE
    LET st0 == [records |-> x_recs, index |-> <<>>, summary |-> EmptySummary,
                yielded |-> <<>>, raised |-> FALSE]
        st1 == pass1_all(st0, 1, y_recs, cfg, required,
                         x_uniqueness_of(x_recs))
        st2 == pass2_all(st1, 1, cfg, dup_threshold)
    IN  IF st1.raised THEN [outcome |-> "raised"]
        ELSE [outcome |-> "returned", records |-> st2.records,
              summary |-> st2.summary]

Next == MatchCall \/ Pass1 \/ Pass2 \/ Return

Spec == Init /\ [][Next]_vars

\* match() on the inputs chosen for column_match.
ColumnSpec == ColumnInit /\ [][Next]_vars

-----------------------------------------------------------------------------
(* config.py: MatcherConfig and its six sub-maps.  An operation is an      *)
(* operator from the configuration (a record of the fields below) and its  *)
(* arguments to the configuration it leaves and the exception it raised    *)
(* ("none" when it returned).                                              *)

\* The configuration held in the variables.
ConfigNow ==
  [x_columns            |-> x_columns,
   y_columns            |-> y_columns,
   columns_to_match     |-> columns_to_match,
   columns_to_get       |-> columns_to_get,
   columns_to_group     |-> columns_to_group,
   scorers_by_column    |-> scorers_by_column,
   thresholds_by_column |-> thresholds_by_column,
   cutoffs_by_column    |-> cutoffs_by_column,
   allow_overwrite      |-> allow_overwrite,
   scorers_default      |-> scorers_default,
   thresholds_default   |-> thresholds_default,
   cutoffs_default      |-> cutoffs_default]

Returned(c) == [cfg |-> c, raised |-> "none"]
Raised(c, e) == [cfg |-> c, raised |-> e]

\* Insertion-ordered dicts held as sequences of <<key, value>>.
Lookup(d, k) == (CHOOSE p \in Range(d) : p[1] = k)[2]
Values(d) == {d[i][2] : i \in DOMAIN d}
SeqPut(d, k, v) ==
  IF k \in Keys(d) THEN [i \in DOMAIN d |-> IF d[i][1] = k THEN <<k, v>> ELSE d[i]]
  ELSE Append(d, <<k, v>>)
SeqDel(d, k) == SelectSeq(d, LAMBDA p : p[1] # k)

\* del f[k] on a dict held as a function.
Remove(f, k) == [j \in DOMAIN f \ {k} |-> f[j]]

\* Python values passed as thresholds, cutoffs and scorer names carry their
\* type; isinstance(v, (int, float)) and isinstance(v, bool).
IsNumber(v) == v.type \in {"int", "float", "bool"}
IsBool(v) == v.type = "bool"
IsNone(v) == v.type = "NoneType"
PyNone == [type |-> "NoneType"]

\* ScorersByColumn.__setitem__
ScorersByColumn_setitem(c, x, scorer_name) ==
  IF x \in c.x_columns
  THEN IF ~IsNone(scorer_name) /\ scorer_name.val \in SCORERS
       THEN Returned([c EXCEPT !.scorers_by_column = Put(@, x, scorer_name.val)])
       ELSE IF IsNone(scorer_name)
       THEN Returned([c EXCEPT !.scorers_by_column = Put(@, x, c.scorers_default)])
       ELSE Raised(c, "TBConfigScorerNotFound")
  ELSE Raised(c, "TBConfigColumnNotFound")

\* ThresholdsByColumn.__setitem__
ThresholdsByColumn_setitem(c, x, threshold) ==
  IF x \in c.x_columns
  THEN IF IsNumber(threshold)
       THEN Returned([c EXCEPT !.thresholds_by_column = Put(@, x, threshold.val)])
       ELSE IF IsNone(threshold)
       THEN Returned([c EXCEPT !.thresholds_by_column =
                                  Put(@, x, c.thresholds_default)])
       ELSE Raised(c, "ValueError")
  ELSE Returned(c)

\* CutoffsByColumn.__setitem__
CutoffsByColumn_setitem(c, x, cutoff) ==
  IF x \in c.x_columns
  THEN IF IsBool(cutoff)
       THEN Returned([c EXCEPT !.cutoffs_by_column = Put(@, x, cutoff.val)])
       ELSE IF IsNone(cutoff)
       THEN Returned([c EXCEPT !.cutoffs_by_column = Put(@, x, c.cutoffs_default)])
       ELSE Raised(c, "ValueError")
  ELSE Returned(c)

\* ColumnsToMatch_getitem without the test of x_columns in __missing__.
ColumnsToMatch_getitem_always(c, x) ==
  IF x \in Keys(c.columns_to_match) THEN c
  ELSE [c EXCEPT !.columns_to_match = Append(@, <<x, <<>>>>)]

\* ColumnsToMatch.__missing__ through self[x]: the configuration after the
\* read (an unassigned x of x_columns becomes a key with an empty list).
ColumnsToMatch_getitem(c, x) ==
  IF x \in Keys(c.columns_to_match) \/ x \notin c.x_columns THEN c
  ELSE [c EXCEPT !.columns_to_match = Append(@, <<x, <<>>>>)]

\* The list self[x] gives.
ColumnsToMatch_list(c, x) ==
  IF x \in Keys(c.columns_to_match) THEN Lookup(c.columns_to_match, x) ELSE <<>>

\* ColumnsToMatch_setitem without the test `y not in self[__x]`.
ColumnsToMatch_setitem_append(c, x, ys) ==
  LET c1  == ColumnsToMatch_getitem(c, x)
      old == ColumnsToMatch_list(c1, x)
      new == SelectSeq(ys, LAMBDA y : y \in c.y_columns)
      c2  == IF x \in Keys(c1.columns_to_match)
             THEN [c1 EXCEPT !.columns_to_match = SeqPut(@, x, old \o new)]
             ELSE c1
      r3  == ScorersByColumn_setitem(c2, x, PyNone)
      r4  == ThresholdsByColumn_setitem(r3.cfg, x, PyNone)
      r5  == CutoffsByColumn_setitem(r4.cfg, x, PyNone)
  IN  IF r3.raised # "none" THEN r3 ELSE IF r4.raised # "none" THEN r4 ELSE r5

\* ColumnsToMatch.__setitem__: ys is the tuple of the Y columns assigned (a
\* single name is a tuple of one).  The list comprehension is evaluated on
\* the list as it is before extend().
ColumnsToMatch_setitem(c, x, ys) ==
  LET c1  == ColumnsToMatch_getitem(c, x)
      old == ColumnsToMatch_list(c1, x)
      new == SelectSeq(ys, LAMBDA y : y \in c.y_columns /\ y \notin Range(old))
      c2  == IF x \in Keys(c1.columns_to_match)
             THEN [c1 EXCEPT !.columns_to_match = SeqPut(@, x, old \o new)]
             ELSE c1
      r3  == ScorersByColumn_setitem(c2, x, PyNone)
      r4  == ThresholdsByColumn_setitem(r3.cfg, x, PyNone)
      r5  == CutoffsByColumn_setitem(r4.cfg, x, PyNone)
  IN  IF r3.raised # "none" THEN r3
      ELSE IF r4.raised # "none" THEN r4
      ELSE r5

\* ByColumn_delitem without the test of columns_to_match.
ByColumn_delitem_unlocked(c, field, x) ==
  IF x \in DOMAIN c[field]
  THEN Returned([c EXCEPT ![field] = Remove(@, x)])
  ELSE Raised(c, "KeyError")

\* ScorersByColumn.__delitem__, ThresholdsByColumn.__delitem__ and
\* CutoffsByColumn.__delitem__; field names the sub-map.
ByColumn_delitem(c, field, x) ==
  IF x \notin Keys(c.columns_to_match)
  THEN IF x \in DOMAIN c[field]
       THEN Returned([c EXCEPT ![field] = Remove(@, x)])
       ELSE Raised(c, "KeyError")
  ELSE Raised(c, "TBConfigColumnToMatchLock")

\* `if x in sub_map: del sub_map[x]` of ColumnsToMatch.__delitem__.
DelIfPresent(c, field, x) ==
  IF x \in DOMAIN c[field] THEN ByColumn_delitem(c, field, x).cfg ELSE c

\* ColumnsToMatch.__delitem__
ColumnsToMatch_delitem(c, x) ==
  IF x \notin Keys(c.columns_to_match) THEN Raised(c, "KeyError")
  ELSE LET c1 == [c EXCEPT !.columns_to_match = SeqDel(@, x)]
       IN  Returned(DelIfPresent(DelIfPresent(
                      DelIfPresent(c1, "scorers_by_column", x),
                      "thresholds_by_column", x), "cutoffs_by_column", x))

\* ColumnsToGet_setitem without the test of y_columns.
ColumnsToGet_setitem_unchecked(c, y, x) ==
  IF c.allow_overwrite \/ x \notin c.x_columns
  THEN IF x \notin Values(c.columns_to_get)
       THEN Returned([c EXCEPT !.columns_to_get = SeqPut(@, y, x)])
       ELSE Raised(c, "TBConfigXUniqueConstraint")
  ELSE Raised(c, "TBConfigOverwriteError")

\* ColumnsToGet.__setitem__
ColumnsToGet_setitem(c, y, x) ==
  IF y \in c.y_columns
  THEN IF c.allow_overwrite
       THEN IF x \notin Values(c.columns_to_get)
            THEN Returned([c EXCEPT !.columns_to_get = SeqPut(@, y, x)])
            ELSE Raised(c, "TBConfigXUniqueConstraint")
       ELSE IF x \notin c.x_columns
            THEN IF x \notin Values(c.columns_to_get)
                 THEN Returned([c EXCEPT !.columns_to_get = SeqPut(@, y, x)])
                 ELSE Raised(c, "TBConfigXUniqueConstraint")
            ELSE Raised(c, "TBConfigOverwriteError")
  ELSE Returned(c)

\* del columns_to_get[y] (dict.__delitem__)
ColumnsToGet_delitem(c, y) ==
  IF y \in Keys(c.columns_to_get)
  THEN Returned([c EXCEPT !.columns_to_get = SeqDel(@, y)])
  ELSE Raised(c, "KeyError")

\* ColumnsToGroup.__setitem__
ColumnsToGroup_setitem(c, y, x) ==
  IF y \in c.y_columns
  THEN IF x \in c.x_columns
       THEN Returned([c EXCEPT !.columns_to_group = Put(@, y, x)])
       ELSE Raised(c, "TBConfigColumnNotFound")
  ELSE Raised(c, "TBConfigColumnNotFound")

\* del columns_to_group[y] (dict.__delitem__)
ColumnsToGroup_delitem(c, y) ==
  IF y \in DOMAIN c.columns_to_group
  THEN Returned([c EXCEPT !.columns_to_group = Remove(@, y)])
  ELSE Raised(c, "KeyError")

\* MatcherConfig.reset
reset(c) ==
  [c EXCEPT !.columns_to_match = <<>>, !.columns_to_get = <<>>,
            !.columns_to_group = <<>>, !.scorers_by_column = <<>>,
            !.thresholds_by_column = <<>>, !.cutoffs_by_column = <<>>]

\* The setters MatcherConfig.x_records and MatcherConfig.y_records; field
\* names the column set.
records_setter(c, field, records) ==
  LET columns == column_names(records)
  IN  IF c[field] = {} THEN [c EXCEPT ![field] = columns]
      ELSE IF c[field] # columns THEN reset([c EXCEPT ![field] = columns])
      ELSE c

\* MatcherConfig.populate, the set intersection iterated in the order given.
RECURSIVE populate(_, _)
populate(c, order) ==
  IF order = <<>> THEN Returned(c)
  ELSE LET r == ColumnsToMatch_setitem(c, Head(order), <<Head(order)>>)
       IN  IF r.raised # "none" THEN r ELSE populate(r.cfg, Tail(order))

\* The setters of ScorersByColumn.default, ThresholdsByColumn.default and
\* CutoffsByColumn.default: the class default is stored first.
scorers_default_setter(c, scorer) ==
  IF ~IsNone(scorer) /\ scorer.val \in SCORERS
  THEN Returned([c EXCEPT !.scorers_default = scorer.val])
  ELSE Raised([c EXCEPT !.scorers_default = DEFAULT_SCORER],
              "TBConfigScorerNotFound")

thresholds_default_setter(c, threshold) ==
  IF IsNumber(threshold)
  THEN Returned([c EXCEPT !.thresholds_default = threshold.val])
  ELSE Raised([c EXCEPT !.thresholds_default = DEFAULT_THRESHOLD], "ValueError")

cutoffs_default_setter(c, cutoff) ==
  IF IsBool(cutoff)
  THEN Returned([c EXCEPT !.cutoffs_default = cutoff.val])
  ELSE Raised([c EXCEPT !.cutoffs_default = DEFAULT_CUTOFF], "ValueError")

-----------------------------------------------------------------------------
(* The configuration as a state machine: one action per public operation   *)
(* of MatcherConfig and its sub-maps, from the states in which both tables *)
(* have been assigned and nothing configured.                              *)

\* Tables with the column sets {}, {"a"} and {"a", "b"}.
ConfigXTables == {<<>>, <<XPool[4]>>, <<XPool[1]>>}
ConfigYTables == {<<>>, <<YPool[4]>>, <<YPool[1]>>}

\* Arguments of the operations: column names in and out of the tables,
\* tuples of Y columns (one repeats a name, one names no column of Y),
\* destinations inside and outside X, and values of the right and of the
\* wrong type or range.
XKeys == {"a", "q"}
YKeys == {"a", "b"}
YTuples == {<<"a">>, <<"b", "a">>, <<"b", "b">>, <<"q">>}
Destinations == {"a", "z"}
ThresholdArgs == {PyNone, [type |-> "int", val |-> 150],
                  [type |-> "str", val |-> "high"]}
CutoffArgs == {PyNone, [type |-> "bool", val |-> TRUE],
               [type |-> "str", val |-> "yes"]}
ScorerArgs == {PyNone, [type |-> "str", val |-> "exact_match"],
               [type |-> "str", val |-> "fuzzy_match"]}

ConfigInit ==
  /\ x_records \in ConfigXTables
  /\ y_records \in ConfigYTables
  /\ x_columns = column_names(x_records)
  /\ y_columns = column_names(y_records)
  /\ columns_to_match = <<>>
  /\ columns_to_get = <<>>
  /\ columns_to_group = <<>>
  /\ scorers_by_column = <<>>
  /\ thresholds_by_column = <<>>
  /\ cutoffs_by_column = <<>>
  /\ allow_overwrite = FALSE
  /\ scorers_default = DEFAULT_SCORER
  /\ thresholds_default = DEFAULT_THRESHOLD
  /\ cutoffs_default = DEFAULT_CUTOFF
  /\ last = NoOperation
  /\ required_threshold = DEFAULT_REQUIRED_THRESHOLD
  /\ duplicate_threshold = DEFAULT_DUPLICATE_THRESHOLD
  /\ pc = "idle"
  /\ x_given = x_records
  /\ y_given = y_records
  /\ x_uniqueness = <<>>
  /\ x_pos = 1
  /\ yielded = <<>>
  /\ y_index_to_x_matches = <<>>
  /\ y_pos = 1
  /\ match_summary = EmptySummary
  /\ update_calls = <<>>

\* The operation op with key k and argument a leaves result r.
Operated(r, op, k, a) ==
  /\ pc = "idle"
  /\ x_columns' = r.cfg.x_columns
  /\ y_columns' = r.cfg.y_columns
  /\ columns_to_match' = r.cfg.columns_to_match
  /\ columns_to_get' = r.cfg.columns_to_get
  /\ columns_to_group' = r.cfg.columns_to_group
  /\ scorers_by_column' = r.cfg.scorers_by_column
  /\ thresholds_by_column' = r.cfg.thresholds_by_column
  /\ cutoffs_by_column' = r.cfg.cutoffs_by_column
  /\ allow_overwrite' = r.cfg.allow_overwrite
  /\ scorers_default' = r.cfg.scorers_default
  /\ thresholds_default' = r.cfg.thresholds_default
  /\ cutoffs_default' = r.cfg.cutoffs_default
  /\ last' = [op |-> op, key |-> k, arg |-> a, raised |-> r.raised,
              before |-> ConfigNow]
  /\ UNCHANGED <<required_threshold, duplicate_threshold, run_vars>>

\* matcher.x_records = t and matcher.y_records = t (TabularMatcher's setters,
\* which also assign the table to the configuration).
SetXRecords ==
  \E t \in ConfigXTables :
    /\ Operated(Returned(records_setter(ConfigNow, "x_columns", t)),
                "x_records", "", t)
    /\ x_records' = t
    /\ UNCHANGED y_records

SetYRecords ==
  \E t \in ConfigYTables :
    /\ Operated(Returned(records_setter(ConfigNow, "y_columns", t)),
                "y_records", "", t)
    /\ y_records' = t
    /\ UNCHANGED x_records

Reset ==
  /\ Operated(Returned(reset(ConfigNow)), "reset", "", "")
  /\ UNCHANGED <<x_records, y_records>>

Populate ==
  \E order \in Orders(x_columns \cap y_columns) :
    /\ Operated(populate(ConfigNow, order), "populate", "", order)
    /\ UNCHANGED <<x_records, y_records>>

SetColumnsToMatch ==
  \E x \in XKeys, ys \in YTuples :
    /\ Operated(ColumnsToMatch_setitem(ConfigNow, x, ys),
                "columns_to_match.__setitem__", x, ys)
    /\ UNCHANGED <<x_records, y_records>>

GetColumnsToMatch ==
  \E x \in XKeys :
    /\ Operated(Returned(ColumnsToMatch_getitem(ConfigNow, x)),
                "columns_to_match.__getitem__", x, "")
    /\ UNCHANGED <<x_records, y_records>>

DelColumnsToMatch ==
  \E x \in XKeys :
    /\ Operated(ColumnsToMatch_delitem(ConfigNow, x),
                "columns_to_match.__delitem__", x, "")
    /\ UNCHANGED <<x_records, y_records>>

SetColumnsToGet ==
  \E y \in YKeys, x \in Destinations :
    /\ Operated(ColumnsToGet_setitem(ConfigNow, y, x),
                "columns_to_get.__setitem__", y, x)
    /\ UNCHANGED <<x_records, y_records>>

DelColumnsToGet ==
  \E y \in YKeys :
    /\ Operated(ColumnsToGet_delitem(ConfigNow, y),
                "columns_to_get.__delitem__", y, "")
    /\ UNCHANGED <<x_records, y_records>>

SetAllowOverwrite ==
  \E b \in BOOLEAN :
    /\ Operated(Returned([ConfigNow EXCEPT !.allow_overwrite = b]),
                "allow_overwrite", "", b)
    /\ UNCHANGED <<x_records, y_records>>

SetColumnsToGroup ==
  \E y \in YKeys, x \in Destinations :
    /\ Operated(ColumnsToGroup_setitem(ConfigNow, y, x),
                "columns_to_group.__setitem__", y, x)
    /\ UNCHANGED <<x_records, y_records>>

DelColumnsToGroup ==
  \E y \in YKeys :
    /\ Operated(ColumnsToGroup_delitem(ConfigNow, y),
                "columns_to_group.__delitem__", y, "")
    /\ UNCHANGED <<x_records, y_records>>

SetScorer ==
  \E x \in XKeys, name \in ScorerArgs :
    /\ Operated(ScorersByColumn_setitem(ConfigNow, x, name),
                "scorers_by_column.__setitem__", x, name)
    /\ UNCHANGED <<x_records, y_records>>

SetThreshold ==
  \E x \in XKeys, t \in ThresholdArgs :
    /\ Operated(ThresholdsByColumn_setitem(ConfigNow, x, t),
                "thresholds_by_column.__setitem__", x, t)
    /\ UNCHANGED <<x_records, y_records>>

SetCutoff ==
  \E x \in XKeys, b \in CutoffArgs :
    /\ Operated(CutoffsByColumn_setitem(ConfigNow, x, b),
                "cutoffs_by_column.__setitem__", x, b)
    /\ UNCHANGED <<x_records, y_records>>

DelByColumn ==
  \E x \in XKeys,
     field \in {"scorers_by_column", "thresholds_by_column", "cutoffs_by_column"} :
    /\ Operated(ByColumn_delitem(ConfigNow, field, x), "__delitem__", x, field)
    /\ UNCHANGED <<x_records, y_records>>

SetScorerDefault ==
  \E name \in ScorerArgs :
    /\ Operated(scorers_default_setter(ConfigNow, name),
                "scorers_by_column.default", "", name)
    /\ UNCHANGED <<x_records, y_records>>

SetThresholdDefault ==
  \E t \in ThresholdArgs :
    /\ Operated(thresholds_default_setter(ConfigNow, t),
                "thresholds_by_column.default", "", t)
    /\ UNCHANGED <<x_records, y_records>>

SetCutoffDefault ==
  \E b \in CutoffArgs :
    /\ Operated(cutoffs_default_setter(ConfigNow, b),
                "cutoffs_by_column.default", "", b)
    /\ UNCHANGED <<x_records, y_records>>

\* The operations on columns_to_match and on the three sub-maps keyed like
\* it, on tables with the columns {"a"} or {"a", "b"} in X and {"a", "b"}
\* in Y.
MatchConfigInit ==
  /\ ConfigInit
  /\ "a" \in x_columns
  /\ y_columns = {"a", "b"}

MatchConfigNext ==
  \/ Populate
  \/ SetColumnsToMatch \/ GetColumnsToMatch \/ DelColumnsToMatch
  \/ SetScorer \/ SetThreshold \/ SetCutoff \/ DelByColumn
  \/ SetScorerDefault \/ SetThresholdDefault \/ SetCutoffDefault

MatchConfigSpec == MatchConfigInit /\ [][MatchConfigNext]_vars

\* The operations on columns_to_get and columns_to_group, with the tables
\* replaced and the configuration reset.
GetConfigNext ==
  \/ SetXRecords \/ SetYRecords \/ Reset
  \/ SetColumnsToGet \/ DelColumnsToGet \/ SetAllowOverwrite
  \/ SetColumnsToGroup \/ DelColumnsToGroup

GetConfigSpec == ConfigInit /\ [][GetConfigNext]_vars

-----
(* Vocabulary of the properties.                                           *)

\* The X rows Pass 1 has annotated so far.
Annotated == IF pc \in {"match", "done"} THEN 1..(x_pos - 1) ELSE {}

\* Pass 1 is over and Pass 2 has not yet handled any entry.
Pass2Untouched == y_pos = 1

StatusOf(i) == x_records[i][ADD_COLUMNS.match_status]
MatchedRowsOf(i) == x_records[i][ADD_COLUMNS.matched_with_row]
MatchScoreOf(i) == x_records[i][ADD_COLUMNS.match_score]

\* The candidates of row i: the accumulator entries with the best score.
Candidates(i) ==
  LET acc == yielded[i].acc
  IN  {p \in Range(acc) : \A q \in Range(acc) : q[2] <= p[2]}

\* passed: the candidates whose composite score reaches required_threshold.
Passed(i) == {p \in Candidates(i) : p[2] >= required_threshold * Scale}

\* The only element of a one-element set.
TheOne(S) == CHOOSE e \in S : TRUE

\* The entries of y_index_to_x_matches that Pass 2 has handled.
Handled == 1..(y_pos - 1)

XIdsOf(k) == {p[1] : p \in Range(y_index_to_x_matches[k][2])}
ScoresOf(k) == {p[2] : p \in Range(y_index_to_x_matches[k][2])}
TopsOf(k) == {p[1] : p \in {q \in Range(y_index_to_x_matches[k][2]) :
                              \A r \in Range(y_index_to_x_matches[k][2]) :
                                 r[2] <= q[2]}}

-----------------------------------------------------------------------------
(* C1: Pass 1 gives a row the status UNMATCHED when no candidate passed,   *)
(* AMBIGUOUS when several did, and with exactly one passed candidate       *)
(* REVIEW iff its score <= optimal, else MATCHED; hence a row whose final  *)
(* status is MATCHED had exactly one passed candidate with score >         *)
(* optimal, and a REVIEW row exactly one with score <= optimal.            *)
C1_Pass1Status ==
  \A i \in Annotated :
    LET n  == Cardinality(Passed(i))
        sc == TheOne(Passed(i))[2]
        st == StatusOf(i)
    IN  /\ Pass2Untouched =>
             /\ (n = 0) => st = "UNMATCHED"
             /\ (n > 1) => st = "AMBIGUOUS"
             /\ (n = 1 /\ sc <= yielded[i].optimal) => st = "REVIEW"
             /\ (n = 1 /\ sc > yielded[i].optimal) => st = "MATCHED"
        /\ st = "MATCHED" => n = 1 /\ sc > yielded[i].optimal
        /\ st = "REVIEW" => n = 1 /\ sc <= yielded[i].optimal

\* A finished run that left one row MATCHED and another REVIEW.
C1_Witness ==
  /\ pc = "done"
  /\ \E i, j \in Annotated : StatusOf(i) = "MATCHED" /\ StatusOf(j) = "REVIEW"

-----------------------------------------------------------------------------
(* C2: for a Y row that was the sole passed candidate of two or more X     *)
(* rows, after Pass 2 has handled it at most one of those X rows has the   *)
(* status MATCHED or REVIEW.                                               *)
C2_AtMostOneKept ==
  \A k \in Handled :
    Cardinality(XIdsOf(k)) >= 2 =>
      Cardinality({i \in XIdsOf(k) : StatusOf(i) \in {"MATCHED", "REVIEW"}}) <= 1

\* A finished run in which a Y row matched by two X rows left exactly one
\* of them MATCHED or REVIEW.
C2_Witness ==
  /\ pc = "done"
  /\ \E k \in Handled :
       /\ Cardinality(XIdsOf(k)) >= 2
       /\ Cardinality({i \in XIdsOf(k) :
                         StatusOf(i) \in {"MATCHED", "REVIEW"}}) = 1

-----------------------------------------------------------------------------
(* C3: in Pass 2, for a Y id with more than one X match: if more than one  *)
(* X row holds the maximum score or |max - min| < duplicate_threshold,     *)
(* every X row matched to it ends DUPLICATE; otherwise none of them does.  *)
C3_DuplicateRule ==
  \A k \in Handled :
    Cardinality(XIdsOf(k)) > 1 =>
      LET max_sc == SetMax(ScoresOf(k))
          min_sc == SetMin(ScoresOf(k))
      IN  IF \/ Cardinality(TopsOf(k)) > 1
             \/ Abs(max_sc - min_sc) < duplicate_threshold * Scale
          THEN \A i \in XIdsOf(k) : StatusOf(i) = "DUPLICATE"
          ELSE \A i \in XIdsOf(k) : StatusOf(i) # "DUPLICATE"

\* A finished run in which two X rows with different scores for the same Y
\* row were both marked DUPLICATE because the gap is below the threshold.
C3_Witness ==
  /\ pc = "done"
  /\ \E k \in Handled :
       /\ Cardinality(XIdsOf(k)) > 1
       /\ Cardinality(TopsOf(k)) = 1
       /\ \A i \in XIdsOf(k) : StatusOf(i) = "DUPLICATE"

-----------------------------------------------------------------------------
(* C4: in Pass 2, when a Y id has several X matches with a unique top      *)
(* score and the DUPLICATE condition does not hold, every non-top X row    *)
(* ends UNMATCHED with every columns_to_get destination cell null and its  *)
(* matched_with_row and match_score cleared, and the top row keeps its     *)
(* Pass 1 status and its copied values.                                    *)
C4_DemotionClears ==
  \A k \in Handled :
    LET max_sc == SetMax(ScoresOf(k))
        min_sc == SetMin(ScoresOf(k))
        y_rec  == y_given[y_index_to_x_matches[k][1]]
    IN  ( /\ Cardinality(XIdsOf(k)) > 1
          /\ Cardinality(TopsOf(k)) = 1
          /\ ~(Abs(max_sc - min_sc) < duplicate_threshold * Scale) ) =>
        \A i \in XIdsOf(k) :
          IF i \in TopsOf(k)
          THEN /\ StatusOf(i) =
                    (IF TheOne(Passed(i))[2] <= yielded[i].optimal
                     THEN "REVIEW" ELSE "MATCHED")
               /\ \A g \in Range(columns_to_get) :
                    Get(x_records[i], g[2]) = y_rec[g[1]]
          ELSE /\ StatusOf(i) = "UNMATCHED"
               /\ \A g \in Range(columns_to_get) :
                    g[2] \in DOMAIN x_records[i] /\ x_records[i][g[2]] = None
               /\ MatchedRowsOf(i) = <<>>
               /\ MatchScoreOf(i) = <<>>

-----------------------------------------------------------------------------
(* C5: in Pass 1, for every X row and every (yc, xc) of columns_to_get:    *)
(* with exactly one passed candidate y the cell xc of the result row is    *)
(* Y[y][yc]; with none or several it is null; so an AMBIGUOUS row had      *)
(* several passed candidates and carries no copied Y value.                *)
C5_Pass1Cells ==
  \A i \in Annotated : \A g \in Range(columns_to_get) :
    LET n == Cardinality(Passed(i))
    IN  /\ g[2] \in DOMAIN x_records[i]
        /\ Pass2Untouched =>
             x_records[i][g[2]] =
               (IF n = 1 THEN y_given[TheOne(Passed(i))[1]][g[1]] ELSE None)
        /\ StatusOf(i) = "AMBIGUOUS" => n > 1 /\ x_records[i][g[2]] = None

\* Pass 1 has ended with a value copied into one row and the destination
\* cell of an AMBIGUOUS row set to null.
C5_Witness ==
  /\ pc = "match" /\ x_pos > Len(x_records) /\ Pass2Untouched
  /\ columns_to_get # <<>>
  /\ \E i, j \in Annotated :
       /\ Cardinality(Passed(i)) = 1
       /\ x_records[i][columns_to_get[1][2]] \in {"1", "2"}
       /\ StatusOf(j) = "AMBIGUOUS"

-----------------------------------------------------------------------------
(* C6: match() does not mutate the tables it was given: when it returns,   *)
(* every record of the X table and of the Y table the caller passed in has *)
(* the keys and values it had before the call.                             *)
SameTable(t, u) ==
  /\ Len(t) = Len(u)
  /\ \A i \in DOMAIN t :
       /\ DOMAIN t[i] = DOMAIN u[i]
       /\ \A c \in DOMAIN t[i] : t[i][c] = u[i][c]

C6_InputsUnchanged ==
  pc = "done" => SameTable(x_records, x_given) /\ SameTable(y_records, y_given)

-----------------------------------------------------------------------------
(* C7: two runs of match() on the same tables, configuration and           *)
(* thresholds give the same output (status, matched_with_row with the Y    *)
(* ids in the same order, match_score, status counter), whatever order the *)
(* set of columns was iterated in when columns_to_match was populated.     *)
Reorderings(d) == {[j \in DOMAIN d |-> d[o[j]]] : o \in Orders(DOMAIN d)}

C7_Deterministic ==
  (pc = "done" /\ x_given # <<>>) =>
    \A cm \in Reorderings(columns_to_match) :
      LET out == match_output(x_given, y_given,
                              [config EXCEPT !.columns_to_match = cm],
                              required_threshold, duplicate_threshold)
      IN  /\ out.outcome = "returned"
          /\ out.summary = match_summary
          /\ \A i \in DOMAIN x_records :
               /\ out.records[i][ADD_COLUMNS.match_status] = StatusOf(i)
               /\ out.records[i][ADD_COLUMNS.matched_with_row] = MatchedRowsOf(i)
               /\ out.records[i][ADD_COLUMNS.match_score] = MatchScoreOf(i)

-----------------------------------------------------------------------------
(* C8: matching never fails because of a missing cell: on tables in which  *)
(* a record omits a column that other records have, records_match and      *)
(* match() complete without error.                                         *)
C8_NeverFails == pc # "error"

-----------------------------------------------------------------------------
(* C9: with an empty columns_to_match, or with an empty Y table, match()   *)
(* on a non-empty X returns a table in which every X row is UNMATCHED.     *)
C9_AllUnmatched ==
  (columns_to_match = <<>> \/ y_records = <<>>) =>
    /\ \A i \in Annotated : StatusOf(i) = "UNMATCHED"
    /\ (pc = "done" /\ x_records # <<>>) => Annotated = DOMAIN x_records

\* A finished run with required_threshold 0 over a non-empty Y table and an
\* empty columns_to_match.
C9_Witness ==
  /\ pc = "done"
  /\ x_records # <<>> /\ y_records # <<>>
  /\ columns_to_match = <<>>
  /\ required_threshold = 0
  /\ Annotated = DOMAIN x_records

-----------------------------------------------------------------------------
(* C10: records_match yields as matches exactly the Y ids whose            *)
(* accumulated score is the maximum of the row, the accumulated score of   *)
(* a Y id being the sum over the columns_to_match entries of the score     *)
(* column_match gives it times the weight of the entry's X column; Y ids   *)
(* with equal maximum score are all returned.                              *)

\* The score column_match computes for Y row y under entry k, for X row i.
ColumnScore(i, k, y) ==
  row_score(x_given[i], y_given[y], columns_to_match[k][1],
            columns_to_match[k][2], scorers_by_column[columns_to_match[k][1]])

\* column_match emits Y row y under entry k.
Emits(i, k, y) ==
  /\ \E j \in DOMAIN yielded[i].grouped : yielded[i].grouped[j] = y
  /\ emitted(ColumnScore(i, k, y), thresholds_by_column[columns_to_match[k][1]],
             cutoffs_by_column[columns_to_match[k][1]])

WeightsOf(i) ==
  u_adjusted(x_columns_to_match(x_given[i], columns_to_match), x_uniqueness)

\* The accumulated score of Y row y for X row i.
AccScore(i, y) ==
  LET ks == {k \in DOMAIN columns_to_match : Emits(i, k, y)}
  IN  SetSum(ks, [k \in ks |-> ColumnScore(i, k, y)
                                 * weight(WeightsOf(i), columns_to_match[k][1])])

\* The Y rows that received a score, and those with the maximum.
ScoredIds(i) ==
  {y \in DOMAIN y_given : \E k \in DOMAIN columns_to_match : Emits(i, k, y)}
BestIds(i) ==
  {y \in ScoredIds(i) : \A z \in ScoredIds(i) : AccScore(i, z) <= AccScore(i, y)}

\* The claim as written: the matches are the Y ids with the maximum score.
C10_MatchesAreMaxima ==
  \A i \in DOMAIN yielded :
    Range(yielded[i].y_matches) = {<<y, AccScore(i, y)>> : y \in BestIds(i)}

\* As the code has it: the Y ids with the maximum score, if that score
\* reaches required_threshold.
C10_MatchesArePassedMaxima ==
  \A i \in DOMAIN yielded :
    /\ Range(yielded[i].y_matches) =
         {<<y, AccScore(i, y)>> :
            y \in {b \in BestIds(i) :
                     AccScore(i, b) >= required_threshold * Scale}}
    /\ Len(yielded[i].y_matches) = Cardinality(Range(yielded[i].y_matches))

\* A row for which two Y rows, each scored under both entries of
\* columns_to_match, tie at the maximum and are both yielded.
C10_Witness ==
  \E i \in DOMAIN yielded :
    /\ Len(yielded[i].y_matches) = 2
    /\ Len(columns_to_match) = 2
    /\ \A p \in Range(yielded[i].y_matches) :
         \A k \in DOMAIN columns_to_match : Emits(i, k, p[1])

-----------------------------------------------------------------------------
(* C11: column_match computes for every Y row of the sub-table the row     *)
(* score R, the maximum over y_cols of scorer(x value, y value) and 0 when *)
(* y_cols is empty, and emits (y_id, R) iff R >= threshold when cutoff is  *)
(* true and iff R > 0 when it is false, in the sub-table's row order.      *)

\* R for X row i, entry k of columns_to_match and Y row y.
RowScoreOf(i, k, y) ==
  LET y_cols == columns_to_match[k][2]
      S == {Scorer(scorers_by_column[columns_to_match[k][1]],
                   Str(Get(x_given[i], columns_to_match[k][1])),
                   Str(Get(y_given[y], y_cols[j]))) : j \in DOMAIN y_cols}
  IN  IF y_cols = <<>> THEN 0 ELSE CHOOSE r \in S : \A q \in S : q <= r

C11_ColumnMatch ==
  \A i \in DOMAIN yielded : \A k \in DOMAIN columns_to_match :
    LET out == yielded[i].scores[k]
        sub == yielded[i].grouped
        thr == thresholds_by_column[columns_to_match[k][1]]
        cut == cutoffs_by_column[columns_to_match[k][1]]
        due(y) == IF cut THEN RowScoreOf(i, k, y) >= thr
                  ELSE RowScoreOf(i, k, y) > 0
    IN  out = [j \in DOMAIN SelectSeq(sub, due) |->
                 <<SelectSeq(sub, due)[j],
                   RowScoreOf(i, k, SelectSeq(sub, due)[j])>>]

\* column_match emitted, under cutoff, a Y row whose score 0 meets the
\* threshold 0; and under cutoff with threshold 100 and two Y columns it
\* emitted a Y row with score 100 and dropped another.
C11_Witness ==
  \E i \in DOMAIN yielded :
    /\ \E k \in DOMAIN columns_to_match :
         /\ cutoffs_by_column[columns_to_match[k][1]]
         /\ thresholds_by_column[columns_to_match[k][1]] = 0
         /\ \E p \in Range(yielded[i].scores[k]) : p[2] = 0
    /\ \E k \in DOMAIN columns_to_match :
         /\ Len(columns_to_match[k][2]) = 2
         /\ cutoffs_by_column[columns_to_match[k][1]]
         /\ thresholds_by_column[columns_to_match[k][1]] = 100
         /\ \E p \in Range(yielded[i].scores[k]) : p[2] = 100
         /\ Len(yielded[i].scores[k]) < Len(yielded[i].grouped)

-----------------------------------------------------------------------------
(* C12: for each X row only the Y rows whose value in every                *)
(* columns_to_group Y-column equals the X row's value in the mapped        *)
(* X-column are scored and can appear in its matches, with their own row   *)
(* ids; with an empty columns_to_group every Y row is a candidate.         *)
GroupOf(i) ==
  {y \in DOMAIN y_given :
     \A yc \in DOMAIN columns_to_group :
        Get(y_given[y], yc) = x_given[i][columns_to_group[yc]]}

C12_OnlyGroupScored ==
  \A i \in DOMAIN yielded :
    /\ yielded[i].grouped = SelectSeq([y \in DOMAIN y_given |-> y],
                                      LAMBDA y : y \in GroupOf(i))
    /\ \A k \in DOMAIN columns_to_match :
         \A p \in Range(yielded[i].scores[k]) : p[1] \in GroupOf(i)
    /\ \A p \in Range(yielded[i].acc) : p[1] \in GroupOf(i)
    /\ \A p \in Range(yielded[i].y_matches) :
         p[1] \in GroupOf(i) /\ p[2] = AccScore(i, p[1])
    /\ columns_to_group = <<>> => GroupOf(i) = DOMAIN y_given

\* A row matched inside its group while a Y row outside the group agrees
\* with it on a matched column.
C12_Witness ==
  \E i \in DOMAIN yielded :
    /\ columns_to_group # <<>>
    /\ yielded[i].y_matches # <<>>
    /\ \E y \in DOMAIN y_given \ GroupOf(i) :
         \E k \in DOMAIN columns_to_match : ColumnScore(i, k, y) > 0

-----------------------------------------------------------------------------
(* Vocabulary of the properties of the configuration.                      *)

\* The last operation was op, applied to key k.
Did(op) == last.op = op
\* The sub-maps keyed by X column that follow columns_to_match.
ByColumn == {"scorers_by_column", "thresholds_by_column", "cutoffs_by_column"}
\* The six sub-maps of a configuration.
SubMaps(c) == <<c.columns_to_match, c.columns_to_get, c.columns_to_group,
                c.scorers_by_column, c.thresholds_by_column,
                c.cutoffs_by_column>>
\* A sequence without its repetitions, in order of first appearance.
RECURSIVE FirstAppearances(_)
FirstAppearances(q) ==
  IF q = <<>> THEN <<>>
  ELSE LET front == FirstAppearances(SubSeq(q, 1, Len(q) - 1))
       IN  IF q[Len(q)] \in Range(front) THEN front
           ELSE Append(front, q[Len(q)])
NoRepetition(q) == Cardinality(Range(q)) = Len(q)

-----------------------------------------------------------------------------
(* C13: assigning columns_to_match[x] = y or (y1, y2, ...) for x in XCols  *)
(* appends, in order of first appearance, each listed Y-column that is in  *)
(* YCols and not already associated with x; the others are ignored without *)
(* error, x becomes a key (with an empty list if nothing was appended),    *)
(* and no list ever contains a duplicate.                                  *)
C13_AssignAppends ==
  /\ \A k \in DOMAIN columns_to_match : NoRepetition(columns_to_match[k][2])
  /\ (Did("columns_to_match.__setitem__") /\ last.key \in last.before.x_columns) =>
       LET old == ColumnsToMatch_list(last.before, last.key)
           add == SelectSeq(FirstAppearances(last.arg),
                            LAMBDA y : y \in last.before.y_columns
                                       /\ y \notin Range(old))
       IN  /\ last.raised = "none"
           /\ last.key \in Keys(columns_to_match)
           /\ Lookup(columns_to_match, last.key) = old \o add

-----------------------------------------------------------------------------
(* C14: assigning columns_to_match[x] for an x not in XCols fails with     *)
(* ColumnNotFound and leaves columns_to_match, scorers_by_column,          *)
(* thresholds_by_column and cutoffs_by_column unchanged, whether or not    *)
(* the assigned Y-column exists.                                           *)
C14_UnknownXRejected ==
  (Did("columns_to_match.__setitem__") /\ last.key \notin last.before.x_columns) =>
    /\ last.raised = "TBConfigColumnNotFound"
    /\ columns_to_match = last.before.columns_to_match
    /\ scorers_by_column = last.before.scorers_by_column
    /\ thresholds_by_column = last.before.thresholds_by_column
    /\ cutoffs_by_column = last.before.cutoffs_by_column

\* An assignment to a column that X lacks, naming a column Y has, was
\* rejected in a configuration that already matches a column.
C14_Witness ==
  /\ Did("columns_to_match.__setitem__")
  /\ last.key \notin x_columns
  /\ last.arg[1] \in y_columns
  /\ last.raised = "TBConfigColumnNotFound"
  /\ columns_to_match # <<>>

-----------------------------------------------------------------------------
(* C15: assigning columns_to_match[k] gives k the default scorer,          *)
(* threshold and cutoff only where k has none: an entry k already has in   *)
(* scorers_by_column, thresholds_by_column or cutoffs_by_column is left    *)
(* unchanged.                                                              *)
C15_DefaultsOnlyIfAbsent ==
  (Did("columns_to_match.__setitem__") /\ last.raised = "none") =>
    /\ \A f \in ByColumn :
         last.key \in DOMAIN last.before[f] =>
           ConfigNow[f][last.key] = last.before[f][last.key]
    /\ last.key \notin DOMAIN last.before.thresholds_by_column =>
         thresholds_by_column[last.key] = last.before.thresholds_default
    /\ last.key \notin DOMAIN last.before.cutoffs_by_column =>
         cutoffs_by_column[last.key] = last.before.cutoffs_default
    /\ last.key \notin DOMAIN last.before.scorers_by_column =>
         scorers_by_column[last.key] = last.before.scorers_default

-----------------------------------------------------------------------------
(* C16: deleting x from scorers_by_column, thresholds_by_column or         *)
(* cutoffs_by_column while x is a key of columns_to_match fails with       *)
(* ColumnToMatchLock and leaves all sub-maps unchanged; deleting x from    *)
(* columns_to_match removes x from those three maps.                       *)
C16_DeleteLocked ==
  /\ (Did("__delitem__") /\ last.key \in Keys(last.before.columns_to_match)) =>
       /\ last.raised = "TBConfigColumnToMatchLock"
       /\ SubMaps(ConfigNow) = SubMaps(last.before)
  /\ (Did("columns_to_match.__delitem__")
        /\ last.key \in Keys(last.before.columns_to_match)) =>
       /\ last.raised = "none"
       /\ columns_to_match = SeqDel(last.before.columns_to_match, last.key)
       /\ \A f \in ByColumn :
            /\ last.key \notin DOMAIN ConfigNow[f]
            /\ DOMAIN ConfigNow[f] = DOMAIN last.before[f] \ {last.key}
            /\ \A x \in DOMAIN ConfigNow[f] : ConfigNow[f][x] = last.before[f][x]

\* The threshold of a matched column, set to a value of its own, was not
\* deleted.
C16_Witness ==
  /\ Did("__delitem__")
  /\ last.arg = "thresholds_by_column"
  /\ last.raised = "TBConfigColumnToMatchLock"
  /\ last.key \in Keys(columns_to_match)
  /\ last.key \in DOMAIN thresholds_by_column
  /\ thresholds_by_column[last.key] # thresholds_default

-----------------------------------------------------------------------------
(* C17: assigning columns_to_get[y] = dest with y not in YCols is rejected *)
(* with ColumnNotFound and leaves columns_to_get unchanged.                *)
C17_UnknownYRaises ==
  (Did("columns_to_get.__setitem__") /\ last.key \notin last.before.y_columns) =>
    /\ last.raised = "TBConfigColumnNotFound"
    /\ columns_to_get = last.before.columns_to_get

\* As the code has it: the assignment is ignored without an error.
C17_UnknownYIgnored ==
  (Did("columns_to_get.__setitem__") /\ last.key \notin last.before.y_columns) =>
    /\ last.raised = "none"
    /\ ConfigNow = last.before

\* An assignment under a column Y lacks, to a destination that is free and
\* outside X, was ignored in a configuration that gets another column.
C17_Witness ==
  /\ Did("columns_to_get.__setitem__")
  /\ last.key \notin y_columns
  /\ last.arg \notin x_columns \cup Values(columns_to_get)
  /\ last.raised = "none"
  /\ columns_to_get # <<>>

-----------------------------------------------------------------------------
(* C18: assigning columns_to_get[y] = dest with y in YCols is rejected     *)
(* with XUniqueConstraint when dest already appears as a value, and with   *)
(* OverwriteError when allow_overwrite is false and dest is in XCols, in   *)
(* both cases leaving columns_to_get unchanged; with allow_overwrite true  *)
(* a dest in XCols that is not yet a value is accepted.                    *)
C18_GetRejections ==
  (Did("columns_to_get.__setitem__") /\ last.key \in last.before.y_columns) =>
    LET taken  == last.arg \in Values(last.before.columns_to_get)
        in_x   == last.arg \in last.before.x_columns
        allow  == last.before.allow_overwrite
    IN  /\ taken =>
              /\ last.raised = "TBConfigXUniqueConstraint"
              /\ columns_to_get = last.before.columns_to_get
        /\ (~allow /\ in_x) =>
              /\ last.raised = "TBConfigOverwriteError"
              /\ columns_to_get = last.before.columns_to_get
        /\ (allow /\ in_x /\ ~taken) =>
              /\ last.raised = "none"
              /\ columns_to_get =
                   SeqPut(last.before.columns_to_get, last.key, last.arg)

-----------------------------------------------------------------------------
(* C19: in every configuration reached by successful mutations every key   *)
(* of columns_to_get is in YCols, no two keys share a destination, and     *)
(* while allow_overwrite is false no destination is in XCols.              *)
C19_GetInvariant ==
  /\ Keys(columns_to_get) \subseteq y_columns
  /\ Cardinality(Values(columns_to_get)) = Len(columns_to_get)
  /\ ~allow_overwrite => Values(columns_to_get) \cap x_columns = {}

-----------------------------------------------------------------------------
(* C20: assigning thresholds_by_column[x] = t stores t only when t is a    *)
(* real number in [0, 100]; for any other t the assignment fails and       *)
(* thresholds_by_column is unchanged, so every stored threshold is in      *)
(* [0, 100].                                                               *)
InRange(t) == IsNumber(t) /\ t.val >= 0 /\ t.val <= 100

C20_ThresholdRange ==
  /\ \A x \in DOMAIN thresholds_by_column :
       thresholds_by_column[x] >= 0 /\ thresholds_by_column[x] <= 100
  /\ (Did("thresholds_by_column.__setitem__")
        /\ ~IsNone(last.arg) /\ ~InRange(last.arg)) =>
       /\ last.raised # "none"
       /\ thresholds_by_column = last.before.thresholds_by_column

-----------------------------------------------------------------------------
(* C21: assigning the X table or the Y table a table whose column set      *)
(* differs from the column set held before empties all six sub-maps, also  *)
(* when the column set held before was empty; assigning a table with the   *)
(* same column set leaves all six sub-maps unchanged.                      *)
AllEmpty(c) == \A i \in 1..6 : SubMaps(c)[i] = <<>>

C21_ResetIffColumnsDiffer ==
  /\ Did("x_records") =>
       IF column_names(last.arg) # last.before.x_columns
       THEN AllEmpty(ConfigNow)
       ELSE SubMaps(ConfigNow) = SubMaps(last.before)
  /\ Did("y_records") =>
       IF column_names(last.arg) # last.before.y_columns
       THEN AllEmpty(ConfigNow)
       ELSE SubMaps(ConfigNow) = SubMaps(last.before)

-----------------------------------------------------------------------------
(* C22: populate() makes every column c of XCols \cap YCols a key of       *)
(* columns_to_match whose list of Y columns contains c, and is idempotent: *)
(* with XCols and YCols unchanged, a second call of populate() leaves all  *)
(* six sub-maps exactly as the first call left them.                       *)
C22_PopulateIdempotent ==
  Did("populate") =>
    /\ last.raised = "none"
    /\ \A c \in x_columns \cap y_columns :
         /\ c \in Keys(columns_to_match)
         /\ c \in Range(Lookup(columns_to_match, c))
    /\ \A order \in Orders(x_columns \cap y_columns) :
         /\ populate(ConfigNow, order).raised = "none"
         /\ SubMaps(populate(ConfigNow, order).cfg) = SubMaps(ConfigNow)

\* populate() ran over two common columns and changed the configuration,
\* which before held a threshold that was not the default.
C22_Witness ==
  /\ Did("populate")
  /\ x_columns \cap y_columns = {"a", "b"}
  /\ SubMaps(ConfigNow) # SubMaps(last.before)
  /\ \E x \in DOMAIN last.before.thresholds_by_column :
       last.before.thresholds_by_column[x] # thresholds_default

-----------------------------------------------------------------------------
(* C23: the status counter match() returns is the histogram of the final   *)
(* statuses: the count of each status is the number of X rows whose final  *)
(* status in the annotated table is that status, and the counts sum to the *)
(* number of X rows, also after Pass 2 re-labels or demotes rows.          *)
RowsWith(s) == {i \in 1..Len(x_records) : StatusOf(i) = MATCH_STATUS[s]}

RECURSIVE SumOver(_, _)
SumOver(f, S) ==
  IF S = {} THEN 0
  ELSE LET e == CHOOSE e \in S : TRUE IN f[e] + SumOver(f, S \ {e})

C23_SummaryIsHistogram ==
  pc = "done" =>
    /\ \A s \in DOMAIN MATCH_STATUS : match_summary[s] = Cardinality(RowsWith(s))
    /\ SumOver(match_summary, DOMAIN MATCH_STATUS) = Len(x_records)

-----------------------------------------------------------------------------
(* C24: during match() with a progress callback the callback is invoked    *)
(* exactly once per X row, in the row order of the X table, and every      *)
(* invocation, hence the Pass 1 annotation of every X row, happens before  *)
(* Pass 2 overwrites the status of any row.                                *)
OncePerRow(n) == update_calls = [i \in 1..n |-> i]

\* Row i no longer carries the status Pass 1 gave it.
Overwritten(i) ==
  StatusOf(i) # MATCH_STATUS[pass1_status(yielded[i].y_matches, yielded[i].optimal)]

C24_CallbackBeforePass2 ==
  /\ (pc = "done" /\ ~(x_given = <<>> /\ y_given = <<>>)) =>
       OncePerRow(Len(x_records))
  /\ (pc = "match" /\ Pass2Untouched) =>
       \E n \in 0..Len(x_records) : OncePerRow(n) /\ Annotated = 1..n
  /\ (pc \in {"match", "done"} /\ (~Pass2Untouched \/ \E i \in Annotated : Overwritten(i))) =>
       /\ OncePerRow(Len(x_records))
       /\ Annotated = 1..Len(x_records)

\* Pass 2 has overwritten the status of a row of a table of two rows, the
\* callback having been invoked for row 1 and then for row 2.
C24_Witness ==
  /\ pc = "match"
  /\ update_calls = <<1, 2>>
  /\ \E i \in Annotated : Overwritten(i)

-----------------------------------------------------------------------------
(* C25: a newly constructed result assembler holds required_threshold =    *)
(* 75.0 and duplicate_threshold = 0.0, so that with the defaults a Y row   *)
(* matched by several X rows with a unique top score demotes the non-top   *)
(* rows to UNMATCHED and marks none of them DUPLICATE.                     *)

\* The thresholds are those TabularMatcher.__init__ assigns.
Constructed ==
  /\ required_threshold = DEFAULT_REQUIRED_THRESHOLD
  /\ duplicate_threshold = DEFAULT_DUPLICATE_THRESHOLD

\* The non-top rows of entry k are UNMATCHED and no row of it is DUPLICATE.
NonTopsDemoted(k) ==
  /\ \A i \in XIdsOf(k) \ TopsOf(k) : StatusOf(i) = "UNMATCHED"
  /\ \A i \in XIdsOf(k) : StatusOf(i) # "DUPLICATE"

SpreadOf(k) == SetMax(ScoresOf(k)) - SetMin(ScoresOf(k))

-----------------------------------------------------------------------------
(* C26: for each X row records_match yields optimal = the sum, over the    *)
(* row's matchable columns M (the columns of columns_to_match that are     *)
(* present and non-empty in the row), of thresholds[xc] times w[xc] (0     *)
(* when xc has no weight); when all thresholds equal t and some column of  *)
(* M has non-zero uniqueness, optimal = t.                                 *)

\* M of row i, and the total uniqueness of its columns.
MatchableOf(i) ==
  {c \in Keys(columns_to_match) :
     c \in DOMAIN x_given[i] /\ x_given[i][c] # "" /\ x_given[i][c] # None}
TotalUniqueness(i) == SetSum(MatchableOf(i), x_uniqueness)

\* w[c] for row i as a fixed-point number, 0 when c has no weight.
ShareOf(i, c) ==
  IF c \in MatchableOf(i) /\ TotalUniqueness(i) > 0
  THEN (x_uniqueness[c] * Scale) \div TotalUniqueness(i)
  ELSE 0

C26_Optimal ==
  \A i \in Annotated :
    /\ yielded[i].optimal =
         SetSum(MatchableOf(i),
                [c \in MatchableOf(i) |-> thresholds_by_column[c] * ShareOf(i, c)])
    /\ \A t \in {thresholds_by_column[c] : c \in DOMAIN thresholds_by_column} :
         (/\ \A c \in MatchableOf(i) : thresholds_by_column[c] = t
          /\ TotalUniqueness(i) > 0) =>
            yielded[i].optimal = t * Scale

\* A row with two matchable columns of different thresholds and different
\* weights was given an optimal strictly between the two thresholds.
C26_Witness ==
  \E i \in Annotated :
    /\ MatchableOf(i) = {"a", "b"}
    /\ thresholds_by_column["a"] # thresholds_by_column["b"]
    /\ ShareOf(i, "a") # ShareOf(i, "b")
    /\ yielded[i].optimal > 0
    /\ yielded[i].optimal < 100 * Scale

-----------------------------------------------------------------------------
(* C27: for every X row the weight vector w, the per-column uniqueness     *)
(* normalised over the row's matchable columns M, has its keys within M;   *)
(* its values sum to 1 if some column of M has non-zero uniqueness, and w  *)
(* is empty (sum 0) otherwise; for an empty set of selected columns the    *)
(* result is empty.                                                        *)
C27_WeightsSumToOne ==
  /\ \A i \in Annotated :
       LET w == yielded[i].weights
       IN  /\ DOMAIN w \subseteq MatchableOf(i)
           /\ IF \E c \in MatchableOf(i) : x_uniqueness[c] > 0
              THEN SetSum(DOMAIN w, w) = Scale
              ELSE w = <<>>
           /\ MatchableOf(i) = {} => w = <<>>
  /\ pc \in {"match", "done"} => u_adjusted({}, x_uniqueness) = <<>>

\* A row with two matchable columns of different uniqueness got two
\* different weights.
C27_Witness ==
  \E i \in Annotated :
    /\ DOMAIN yielded[i].weights = {"a", "b"}
    /\ yielded[i].weights["a"] # yielded[i].weights["b"]
    /\ x_uniqueness["a"] + x_uniqueness["b"] # Scale

-----------------------------------------------------------------------------
(* C28: for every table T and column c, uniqueness(T, c) = (number of      *)
(* distinct non-empty values of c in T) / |T| lies in [0, 1], is 0 when T  *)
(* is empty, and equals 1 iff every non-empty value of c is distinct       *)
(* across all rows of T.                                                   *)

\* The rows of the X table that hold a value in column c, and whether
\* these values are pairwise distinct.
FilledRows(c) == {i \in DOMAIN x_given : x_given[i][c] # "" /\ x_given[i][c] # None}
AllDistinct(c) ==
  \A i, j \in FilledRows(c) : i # j => x_given[i][c] # x_given[j][c]

\* uniqueness(T, c) is the stated fraction, within [0, 1].
IsFraction(c) ==
  /\ x_uniqueness[c] * Len(x_given) =
       Cardinality({x_given[i][c] : i \in FilledRows(c)}) * Scale
  /\ x_uniqueness[c] >= 0
  /\ x_uniqueness[c] <= Scale

-----------------------------------------------------------------------------
(* C29: in every configuration state reachable by any sequence of          *)
(* operations on the configuration, a mere read of columns_to_match[x] for *)
(* a never assigned x of XCols included, every key of columns_to_match is  *)
(* also a key of scorers_by_column, thresholds_by_column and               *)
(* cutoffs_by_column.                                                      *)
C29_MatchedKeysConfigured ==
  \A f \in ByColumn : Keys(columns_to_match) \subseteq DOMAIN ConfigNow[f]

-----------------------------------------------------------------------------
(* C30: setting the default scorer to a name that is not in the registry,  *)
(* the default threshold to a non-number or the default cutoff to a        *)
(* non-boolean is an error that leaves the default held before in force:   *)
(* a later assignment of columns_to_match[k] still attaches the default    *)
(* that was held before the rejected assignment.                           *)

\* The configuration after columns_to_match[k] = k in the current state.
Attached(k) == ColumnsToMatch_setitem(ConfigNow, k, <<k>>).cfg

C30_RejectedDefaultKeepsPrevious ==
  /\ (Did("scorers_by_column.default")
        /\ (IsNone(last.arg) \/ last.arg.val \notin SCORERS)) =>
       /\ last.raised # "none"
       /\ scorers_default = last.before.scorers_default
       /\ \A k \in x_columns :
            Attached(k).scorers_by_column[k] = last.before.scorers_default
  /\ (Did("thresholds_by_column.default") /\ ~IsNumber(last.arg)) =>
       /\ last.raised # "none"
       /\ thresholds_default = last.before.thresholds_default
       /\ \A k \in x_columns :
            Attached(k).thresholds_by_column[k] = last.before.thresholds_default
  /\ (Did("cutoffs_by_column.default") /\ ~IsBool(last.arg)) =>
       /\ last.raised # "none"
       /\ cutoffs_default = last.before.cutoffs_default
       /\ \A k \in x_columns :
            Attached(k).cutoffs_by_column[k] = last.before.cutoffs_default

=============================================================================
